---- MODULE Spec2Model ----
(***************************************************************************)
(* Model of the counter readers (utils/cpu.rs, utils/drive.rs) and of the  *)
(* applications page (ui/pages/applications.rs).                           *)
(*                                                                         *)
(* Text is modelled as a sequence of one-character strings, so that        *)
(* rendering a counter and parsing it back are two different computations. *)
(* Result<T> is modelled as a record [kind, val] with kind "Ok", "Err" or  *)
(* "Panic" (an index out of bounds ends the call by unwinding).            *)
(***************************************************************************)
EXTENDS Integers, Sequences, FiniteSets, TLC

VARIABLES
    \* ---- /proc/stat and get_cpu_usage (utils/cpu.rs) ----
    cpuLines,     \* number of lines of /proc/stat that begin with "cpu"
    cpuShape,     \* how each cpu line deviates from the ten-field format
    cpuProfile,   \* which set of counter values the kernel started from
    cpuTicks,     \* ticks added to each of the ten counters since then
    cpuRes,       \* the last call of get_cpu_usage: its argument and result
    cpuPrev,      \* the call before that
    \* ---- /sys/block/<dev>/stat and sys_stat (utils/drive.rs) ----
    statShape,    \* how the stat line deviates from the 17-field format
    statPad,      \* blanks the kernel prints before each field
    statProfile,  \* which set of counter values the device reports
    statRes,      \* the last call of sys_stat: its result
    \* ---- hw_sector_size, scaling_cur_freq and their readers ----
    sysfsValue,   \* the number the kernel reports in the one-line sysfs file
    sysfsShape,   \* how the file presents it
    sectorRes,    \* the last call of get_sector_size on the file: its result
    freqRes,      \* the last call of get_cpu_freq on the file: its result
    \* ---- the applications page (ui/pages/applications.rs) ----
    pc,             \* "new" before init(), then "running"; "crashed" after a panic
    apps,           \* imp.apps: the identifiers of the applications Apps holds
    store,          \* imp.store: the ListStore handed to the filter model
    searchRevealed, \* search_revealer.reveals_child()
    searchText,     \* search_entry.text()
    selected,       \* selection_model.selected(): None for u32::MAX, or a position
    refreshing,     \* refresh_apps_list is suspended in apps.refresh().await
    listener,       \* where the loop of setup_listener stands: "none" before it is
                    \* spawned, "timeout" or "refresh" for the future it awaits
    cycles,         \* number of calls of refresh_apps_list that have not returned
    captured,       \* its local selected_item: Option<Option<String>>
    endSensitive,   \* end_application_button.is_sensitive()
    dialog,         \* the open confirmation dialog: None or Some([app, signal])
    event,          \* what the last step handled
    observed,       \* the contents of the store at each items-changed it emitted to
                    \* the filter model in the last step
    sent,           \* the calls of app.signal the last step made
    toasts          \* the notices the last step added to the toast overlay

cpuVars == <<cpuLines, cpuShape, cpuProfile, cpuTicks, cpuRes, cpuPrev>>
statVars == <<statShape, statPad, statProfile, statRes>>
uiVars == <<pc, apps, store, searchRevealed, searchText, selected, refreshing,
            listener, cycles, captured, endSensitive, dialog, event, observed, sent,
            toasts>>
loopVars == <<listener, cycles>>
fileVars == <<sysfsValue, sysfsShape, sectorRes, freqRes>>
vars == <<cpuVars, statVars, fileVars, uiVars>>

-----------------------------------------------------------------------------
(* Bounds of the model *)

\* largest number of "cpu" lines in /proc/stat (the aggregate line included)
MaxCpuLines == 2
\* largest number of ticks the kernel adds to the counters in one behaviour
MaxTicks == 2
\* largest number of blanks before a field of /sys/block/<dev>/stat
MaxPad == 2

-----------------------------------------------------------------------------
(* Text *)

Digits == <<"0", "1", "2", "3", "4", "5", "6", "7", "8", "9">>

IsDigit(c) == \E d \in 1..10 : Digits[d] = c

DigitVal(c) == (CHOOSE d \in 1..10 : Digits[d] = c) - 1

\* u64/usize to decimal text, as the kernel's "%llu" prints it
RECURSIVE ToDecimal(_)
ToDecimal(n) ==
    IF n < 10 THEN <<Digits[n + 1]>>
    ELSE ToDecimal(n \div 10) \o <<Digits[(n % 10) + 1]>>

Ok(v) == [kind |-> "Ok", val |-> v]
Err(why) == [kind |-> "Err", val |-> why]
Panic(why) == [kind |-> "Panic", val |-> why]

RECURSIVE DigitsValue(_, _)
DigitsValue(s, acc) ==
    IF s = <<>> THEN acc
    ELSE DigitsValue(Tail(s), acc * 10 + DigitVal(Head(s)))

\* str::parse::<u64>() / parse::<usize>() on text made of digits: the empty
\* string is an error, leading zeros are accepted.
ParseUnsigned(s) ==
    IF s = <<>> \/ \E i \in 1..Len(s) : ~IsDigit(s[i])
    THEN Err("ParseIntError")
    ELSE Ok(DigitsValue(s, 0))

\* position after the longest run of digits / blanks starting at i
RECURSIVE SkipDigits(_, _)
SkipDigits(s, i) ==
    IF i <= Len(s) /\ IsDigit(s[i]) THEN SkipDigits(s, i + 1) ELSE i

RECURSIVE SkipBlanks(_, _)
SkipBlanks(s, i) ==
    IF i <= Len(s) /\ s[i] = " " THEN SkipBlanks(s, i + 1) ELSE i

\* n repetitions of the regex fragment ` *(?P<name>[0-9]*)` matched from
\* position i. Both stars are greedy and what follows can always match the
\* empty string, so the leftmost-first match is the greedy one. The result
\* is the text of the n groups, each possibly empty.
RECURSIVE CaptureFields(_, _, _)
CaptureFields(s, i, n) ==
    IF n = 0 THEN <<>>
    ELSE LET j == SkipBlanks(s, i)
             k == SkipDigits(s, j)
         IN  <<SubSeq(s, j, k - 1)>> \o CaptureFields(s, k, n - 1)

RECURSIVE Blanks(_)
Blanks(n) == IF n = 0 THEN <<>> ELSE <<" ">> \o Blanks(n - 1)

\* str::split('\n'): the pieces between the separators, the last one included
Split(s) ==
    LET nl == {i \in 1..Len(s) : s[i] = "\n"}
        \* position of the k-th separator; 0 and Len(s) + 1 fence the text
        sep(k) == IF k = 0 THEN 0
                  ELSE IF k > Cardinality(nl) THEN Len(s) + 1
                  ELSE CHOOSE i \in nl : Cardinality({j \in nl : j < i}) = k - 1
    IN  [k \in 1..(Cardinality(nl) + 1) |-> SubSeq(s, sep(k - 1) + 1, sep(k) - 1)]

StartsWithCpu(s) == Len(s) >= 3 /\ SubSeq(s, 1, 3) = <<"c", "p", "u">>

RECURSIVE Retain(_)
Retain(ls) ==
    IF ls = <<>> THEN <<>>
    ELSE IF StartsWithCpu(Head(ls)) THEN <<Head(ls)>> \o Retain(Tail(ls))
    ELSE Retain(Tail(ls))

RECURSIVE SumSeq(_)
SumSeq(s) == IF s = <<>> THEN 0 ELSE Head(s) + SumSeq(Tail(s))

-----------------------------------------------------------------------------
(* What the kernel prints *)

\* the deviations of a line from its format of n fields
Shapes(n) ==
    {[kind |-> "full", at |-> 0]}
        \cup [kind : {"trunc"}, at : 0..(n - 1)]   \* only the first `at` fields
        \cup [kind : {"omit"}, at : 1..n]          \* field `at` left out
        \cup [kind : {"junk"}, at : 1..n]          \* field `at` is the token x
        \cup [kind : {"glued"}, at : 1..n]         \* field `at` has x appended

\* the tokens of a line whose fields hold vals, under a shape
Tokens(vals, shape) ==
    LET n == Len(vals)
        num(i) == ToDecimal(vals[i])
    IN  CASE shape.kind = "full" -> [i \in 1..n |-> num(i)]
          [] shape.kind = "trunc" -> [i \in 1..shape.at |-> num(i)]
          [] shape.kind = "omit" ->
                [i \in 1..(n - 1) |-> IF i < shape.at THEN num(i) ELSE num(i + 1)]
          [] shape.kind = "junk" ->
                [i \in 1..n |-> IF i = shape.at THEN <<"x">> ELSE num(i)]
          [] shape.kind = "glued" ->
                [i \in 1..n |-> IF i = shape.at THEN num(i) \o <<"x">> ELSE num(i)]

\* whether every one of the n fields is present and numeric
WellFormed(shape) == shape.kind = "full"

RECURSIVE JoinTokens(_, _)
JoinTokens(toks, pad) ==
    IF toks = <<>> THEN <<>>
    ELSE Blanks(pad) \o Head(toks) \o JoinTokens(Tail(toks), pad)

-----------------------------------------------------------------------------
(* utils/cpu.rs *)

NumCpuFields == 10

None == <<>>
Some(x) == <<x>>

\* the counter values the kernel started from: field i of cpu line j
\* (line 0 is the aggregate line, line j > 0 is core j - 1)
CpuProfiles == 0..1

CpuBase(p, j, i) == IF p = 0 THEN 0 ELSE i * i + 7 * j + 3

CpuVals(j) == [i \in 1..NumCpuFields |-> CpuBase(cpuProfile, j, i) + cpuTicks[i]]

\* "cpu  1 2 ..." for the aggregate line, "cpu0 1 2 ..." for a core
CpuLine(j) ==
    <<"c", "p", "u">>
        \o (IF j = 0 THEN <<>> ELSE ToDecimal(j - 1))
        \o JoinTokens(Tokens(CpuVals(j), cpuShape), IF j = 0 THEN 2 ELSE 1)

RECURSIVE CpuLinesFrom(_)
CpuLinesFrom(j) ==
    IF j >= cpuLines THEN <<>>
    ELSE CpuLine(j) \o <<"\n">> \o CpuLinesFrom(j + 1)

\* the content of /proc/stat: the cpu lines, then lines of other kinds
ProcStatFile ==
    CpuLinesFrom(0)
        \o <<"i", "n", "t", "r", " ", "7", "\n">>
        \o <<"c", "t", "x", "t", " ", "4", "2", "\n">>

\* where the leftmost match of the literal "cpu" starts, 0 when there is none
FindCpu(s) ==
    LET hits == {i \in 1..Len(s) : StartsWithCpu(SubSeq(s, i, Len(s)))}
    IN  IF hits = {} THEN 0 ELSE CHOOSE i \in hits : \A k \in hits : i <= k

\* PROC_STAT_REGEX without `[0-9]*` after "cpu": the digits of the core number
\* are taken for the first field
PROC_STAT_REGEX_no_core(line) ==
    LET p == FindCpu(line)
    IN  IF p = 0 THEN None
        ELSE Some(CaptureFields(line, p + 3, 10))

\* Regex::captures of PROC_STAT_REGEX: None, or the text of the ten groups
\* user, nice, system, idle, iowait, irq, softirq, steal, guest, guest_nice.
\* `cpu[0-9]*` consumes the digits of the core number before the first group.
PROC_STAT_REGEX(line) ==
    LET p == FindCpu(line)
    IN  IF p = 0 THEN None
        ELSE Some(CaptureFields(line, SkipDigits(line, p + 3), NumCpuFields))

\* flat_map over the Results of the groups: an Err yields no element
RECURSIVE FlatMapParse(_)
FlatMapParse(caps) ==
    IF caps = <<>> THEN <<>>
    ELSE LET r == ParseUnsigned(Head(caps))
         IN  (IF r.kind = "Ok" THEN <<r.val>> ELSE <<>>) \o FlatMapParse(Tail(caps))

\* parse_proc_stat_line with the sum taken over the busy counters only
parse_proc_stat_line_busy_sum(line) ==
    LET captures == PROC_STAT_REGEX(line)
    IN  IF captures = None THEN Err("using regex to parse /proc/stat failed")
        ELSE LET caps == captures[1]
                 idle == ParseUnsigned(caps[4])
                 iowait == ParseUnsigned(caps[5])
             IN  IF idle.kind # "Ok" THEN Err("unable to get idle time")
                 ELSE IF iowait.kind # "Ok" THEN Err("unable to get iowait time")
                 ELSE Ok(<<idle.val + iowait.val,
                           SumSeq(FlatMapParse(SubSeq(caps, 1, 3) \o SubSeq(caps, 6, 10)))>>)

parse_proc_stat_line(line) ==
    LET captures == PROC_STAT_REGEX(line)
    IN  IF captures = None THEN Err("using regex to parse /proc/stat failed")
        ELSE LET caps == captures[1]
                 idle == ParseUnsigned(caps[4])
                 iowait == ParseUnsigned(caps[5])
             IN  IF idle.kind # "Ok" THEN Err("unable to get idle time")
                 ELSE IF iowait.kind # "Ok" THEN Err("unable to get iowait time")
                 ELSE Ok(<<idle.val + iowait.val, SumSeq(FlatMapParse(caps))>>)

\* the line number core selects: 0 for None, core + 1 for Some(core)
SelectedLineNumber(core) == IF core = None THEN 0 ELSE core[1] + 1

get_proc_stat(core, raw) ==
    LET selected_line_number == SelectedLineNumber(core)
        proc_stat == Retain(Split(raw))
    IN  IF selected_line_number > Len(proc_stat)
        THEN Err("core argument greater than amount of cores")
        ELSE IF selected_line_number >= Len(proc_stat)
        THEN Panic("index out of bounds")
        ELSE Ok(proc_stat[selected_line_number + 1])

get_cpu_usage(core, raw) ==
    LET line == get_proc_stat(core, raw)
    IN  IF line.kind # "Ok" THEN line ELSE parse_proc_stat_line(line.val)

\* the arguments get_cpu_usage is called with
Cores == {None} \cup {Some(k) : k \in 0..MaxCpuLines}

NoCall == [core |-> None, line |-> 0, kind |-> "NoCall", val |-> <<>>, fields |-> <<>>]

\* One call of get_cpu_usage(core). Beside the result, the record keeps the
\* selected line number and the counters the kernel held for that line.
GetCpuUsage(core) ==
    /\ cpuRes.kind # "Panic"
    /\ LET r == get_cpu_usage(core, ProcStatFile)
           n == SelectedLineNumber(core)
       IN  cpuRes' = [core |-> core, line |-> n, kind |-> r.kind, val |-> r.val,
                      fields |-> IF n < cpuLines THEN CpuVals(n) ELSE <<>>]
    /\ cpuPrev' = cpuRes
    /\ UNCHANGED <<cpuLines, cpuShape, cpuProfile, cpuTicks, statVars, fileVars, uiVars>>

\* The kernel accounts one more tick to counter i of every cpu line.
Tick(i) ==
    /\ cpuRes.kind # "Panic"
    /\ SumSeq(cpuTicks) < MaxTicks
    /\ cpuTicks' = [cpuTicks EXCEPT ![i] = @ + 1]
    /\ UNCHANGED <<cpuLines, cpuShape, cpuProfile, cpuRes, cpuPrev, statVars, fileVars, uiVars>>

NoEvent == [kind |-> "none", signal |-> "-", answer |-> "-", app |-> <<>>,
            outcome |-> "-", captured |-> <<>>]

\* the page as glib::Object::new leaves it, before init()
UiNew ==
    /\ pc = "new"
    /\ apps = {}
    /\ store = <<>>
    /\ searchRevealed = FALSE
    /\ searchText = <<>>
    /\ selected = <<>>
    /\ refreshing = FALSE
    /\ listener = "none"
    /\ cycles = 0
    /\ captured = <<>>
    /\ endSensitive = FALSE
    /\ dialog = <<>>
    /\ event = NoEvent
    /\ observed = <<>>
    /\ sent = <<>>
    /\ toasts = <<>>

\* no call of the reader has been made
NotCalled == [kind |-> "NoCall", val |-> <<>>]

FileIdle ==
    /\ sysfsValue = 0
    /\ sysfsShape = "line"
    /\ sectorRes = NotCalled
    /\ freqRes = NotCalled

StatIdle ==
    /\ statShape = [kind |-> "full", at |-> 0]
    /\ statPad = 1
    /\ statProfile = 0
    /\ statRes = [kind |-> "NoCall", val |-> <<>>]

\* /proc/stat in any of its shapes, read at one instant
InitProcStat ==
    /\ cpuLines \in 0..MaxCpuLines
    /\ cpuShape \in Shapes(NumCpuFields)
    /\ cpuProfile \in CpuProfiles
    /\ cpuTicks = [i \in 1..NumCpuFields |-> 0]
    /\ cpuRes = NoCall
    /\ cpuPrev = NoCall
    /\ StatIdle
    /\ FileIdle
    /\ UiNew

NextProcStat == \E core \in Cores : GetCpuUsage(core)

SpecProcStat == InitProcStat /\ [][NextProcStat]_vars

\* a well-formed /proc/stat whose counters advance between the calls
InitCpuUsage ==
    /\ cpuLines = MaxCpuLines
    /\ cpuShape = [kind |-> "full", at |-> 0]
    /\ cpuProfile \in CpuProfiles
    /\ cpuTicks = [i \in 1..NumCpuFields |-> 0]
    /\ cpuRes = NoCall
    /\ cpuPrev = NoCall
    /\ StatIdle
    /\ FileIdle
    /\ UiNew

\* the aggregate line and the first core are sampled
NextCpuUsage ==
    \/ \E core \in {None, Some(0)} : GetCpuUsage(core)
    \/ \E i \in 1..NumCpuFields : Tick(i)

SpecCpuUsage == InitCpuUsage /\ [][NextCpuUsage]_vars

-----------------------------------------------------------------------------
(* utils/drive.rs *)

SYS_STAT_FIELDS ==
    <<"read_ios", "read_merges", "read_sectors", "read_ticks",
      "write_ios", "write_merges", "write_sectors", "write_ticks",
      "in_flight", "io_ticks", "time_in_queue",
      "discard_ios", "discard_merges", "discard_sectors", "discard_ticks",
      "flush_ios", "flush_ticks">>

NumStatFields == Len(SYS_STAT_FIELDS)

\* DRIVE_REGEX with the groups read_ticks and write_ios in each other's place
DRIVE_REGEX_NAMES_swapped ==
    <<"read_ios", "read_merges", "read_sectors", "write_ios",
      "read_ticks", "write_merges", "write_sectors", "write_ticks",
      "in_flight", "io_ticks", "time_in_queue",
      "discard_ios", "discard_merges", "discard_sectors", "discard_ticks",
      "flush_ios", "flush_ticks">>

\* the names of the groups of DRIVE_REGEX, in the order the regex lists them
DRIVE_REGEX_NAMES ==
    <<"read_ios", "read_merges", "read_sectors", "read_ticks",
      "write_ios", "write_merges", "write_sectors", "write_ticks",
      "in_flight", "io_ticks", "time_in_queue",
      "discard_ios", "discard_merges", "discard_sectors", "discard_ticks",
      "flush_ios", "flush_ticks">>

\* Regex::captures of DRIVE_REGEX: every part of the regex can match the
\* empty string, so it matches at the start of any text. The result maps
\* each group name to the text of its group.
DRIVE_REGEX(stat) ==
    LET groups == CaptureFields(stat, 1, Len(DRIVE_REGEX_NAMES))
        index(name) == CHOOSE i \in 1..Len(DRIVE_REGEX_NAMES) : DRIVE_REGEX_NAMES[i] = name
    IN  Some([name \in {DRIVE_REGEX_NAMES[i] : i \in 1..Len(DRIVE_REGEX_NAMES)} |->
                 groups[index(name)]])

\* the counters the device reports: field i
StatProfiles == 0..2

StatBase(p, i) ==
    CASE p = 0 -> 0
      [] p = 1 -> i * i + 5
      [] OTHER -> 1000 * i + 7

StatVals == [i \in 1..NumStatFields |-> StatBase(statProfile, i)]

\* the content of /sys/block/<dev>/stat: one line, blanks before each field
StatFile == JoinTokens(Tokens(StatVals, statShape), statPad) \o <<"\n">>

\* the loop over SYS_STAT_FIELDS: the first field that is no group of the
\* regex or does not parse ends the call with Err
sys_stat(stat) ==
    LET captures == DRIVE_REGEX(stat)
    IN  IF captures = None THEN Err("unable to parse stat")
        ELSE LET caps == captures[1]
                 fields == {SYS_STAT_FIELDS[i] : i \in 1..NumStatFields}
             IN  IF \E f \in fields : f \notin DOMAIN caps
                 THEN Err("unable to get field from stat")
                 ELSE IF \E f \in fields : ParseUnsigned(caps[f]).kind # "Ok"
                 THEN Err("ParseIntError")
                 ELSE Ok([f \in fields |-> ParseUnsigned(caps[f]).val])

\* One call of sys_stat(dev).
SysStat ==
    /\ statRes' = sys_stat(StatFile)
    /\ UNCHANGED <<statShape, statPad, statProfile, cpuVars, fileVars, uiVars>>

CpuIdle ==
    /\ cpuLines = 0
    /\ cpuShape = [kind |-> "full", at |-> 0]
    /\ cpuProfile = 0
    /\ cpuTicks = [i \in 1..NumCpuFields |-> 0]
    /\ cpuRes = NoCall
    /\ cpuPrev = NoCall

InitDrive ==
    /\ statShape \in Shapes(NumStatFields)
    /\ statPad \in 1..MaxPad
    /\ statProfile \in StatProfiles
    /\ statRes = [kind |-> "NoCall", val |-> <<>>]
    /\ CpuIdle
    /\ FileIdle
    /\ UiNew

NextDrive == SysStat

SpecDrive == InitDrive /\ [][NextDrive]_vars

-----------------------------------------------------------------------------
(* utils/drive.rs: get_sector_size; utils/cpu.rs: get_cpu_freq *)

\* the numbers the kernel reports: sector sizes in bytes, frequencies in kHz
SysfsValues == {0, 7, 512, 4096, 800000, 2000000}

\* "line": the number and the newline that ends the line, as sysfs prints it;
\* "bare": the number alone; "junk": a letter follows the number; "signed": a
\* minus sign precedes it; "blank": the newline alone; "empty": nothing;
\* "unreadable": read_to_string fails
SysfsShapes == {"line", "bare", "junk", "signed", "blank", "empty", "unreadable"}

\* read_to_string of the file: None when it fails
SysfsFile(n, shape) ==
    CASE shape = "line" -> Some(ToDecimal(n) \o <<"\n">>)
      [] shape = "bare" -> Some(ToDecimal(n))
      [] shape = "junk" -> Some(ToDecimal(n) \o <<"x", "\n">>)
      [] shape = "signed" -> Some(<<"-">> \o ToDecimal(n) \o <<"\n">>)
      [] shape = "blank" -> Some(<<"\n">>)
      [] shape = "empty" -> Some(<<>>)
      [] shape = "unreadable" -> None

\* read_to_string(..).await?.parse().with_context(..)
get_sector_size(file) ==
    IF file = None THEN Err("io")
    ELSE IF ParseUnsigned(file[1]).kind = "Ok" THEN ParseUnsigned(file[1])
    ELSE Err("unable to parse hw_sector_size")

\* String::replace('\n', "")
replace_newline(s) == SelectSeq(s, LAMBDA c : c # "\n")

\* read_to_string(..)?.replace('\n', "").parse::<u64>().map(|x| x * 1000)
get_cpu_freq(file) ==
    IF file = None THEN Err("unable to read scaling_cur_freq")
    ELSE LET parsed == ParseUnsigned(replace_newline(file[1]))
         IN  IF parsed.kind = "Ok" THEN Ok(parsed.val * 1000)
             ELSE Err("can't parse scaling_cur_freq to usize")

\* One call of get_sector_size(dev).
GetSectorSize ==
    /\ sectorRes' = get_sector_size(SysfsFile(sysfsValue, sysfsShape))
    /\ UNCHANGED <<sysfsValue, sysfsShape, freqRes, cpuVars, statVars, uiVars>>

\* One call of get_cpu_freq(core).
GetCpuFreq ==
    /\ freqRes' = get_cpu_freq(SysfsFile(sysfsValue, sysfsShape))
    /\ UNCHANGED <<sysfsValue, sysfsShape, sectorRes, cpuVars, statVars, uiVars>>

InitSysfs ==
    /\ sysfsValue \in SysfsValues
    /\ sysfsShape \in SysfsShapes
    /\ sectorRes = NotCalled
    /\ freqRes = NotCalled
    /\ CpuIdle
    /\ StatIdle
    /\ UiNew

NextSysfs == GetSectorSize \/ GetCpuFreq

SpecSysfs == InitSysfs /\ [][NextSysfs]_vars

-----------------------------------------------------------------------------
(* ui/pages/applications.rs: the data shown *)

\* largest number of processes of an application that app.signal reports on
MaxProcs == 3

\* the identifiers of the applications that can be running
AppIds == {"a", "b"}

\* SimpleItem.display_name and SimpleItem.description of an item, by its id
\* (None is the item of the system processes)
DisplayName(id) ==
    CASE id = None -> <<"S", "y">>
      [] id = Some("a") -> <<"A", "b">>
      [] id = Some("b") -> <<"C", "d">>

Description(id) ==
    CASE id = None -> None
      [] id = Some("a") -> None
      [] id = Some("b") -> Some(<<"b", "x">>)

SimpleItem(id) ==
    [id |-> id, display_name |-> DisplayName(id), description |-> Description(id)]

\* Apps::simple(): one item for each application, in the order the map
\* yields them, and one, with no id, for the system processes
RECURSIVE SimpleOf(_)
SimpleOf(ids) ==
    IF ids = {} THEN <<>>
    ELSE LET x == CHOOSE x \in ids : TRUE
         IN  <<SimpleItem(Some(x))>> \o SimpleOf(ids \ {x})

Simple(ids) == SimpleOf(ids) \o <<SimpleItem(None)>>

\* App::display_name() of the application with this identifier
App(id) == [id |-> id, display_name |-> DisplayName(Some(id))]

\* str::to_lowercase
LowerChar(c) ==
    CASE c = "A" -> "a"
      [] c = "C" -> "c"
      [] c = "S" -> "s"
      [] OTHER -> c

to_lowercase(s) == [i \in 1..Len(s) |-> LowerChar(s[i])]

\* str::contains
contains(hay, needle) ==
    \E i \in 0..(Len(hay) - Len(needle)) : SubSeq(hay, i + 1, i + Len(needle)) = needle

\* Option<String>::unwrap_or_default
unwrap_or_default(o) == IF o = None THEN <<>> ELSE o[1]

\* the texts the user types into the search entry
SearchTexts == {<<>>, <<"b">>, <<"C">>}

search_filter(item, revealed, text) ==
    LET search_string == to_lowercase(text)
    IN  \/ ~revealed
        \/ contains(to_lowercase(item.display_name), search_string)
        \/ contains(to_lowercase(unwrap_or_default(item.description)), search_string)

\* the order of the bytes of the characters used (String::cmp)
CharOrder == <<"A", "C", "S", "a", "b", "c", "d", "s", "x", "y">>

CharRank(c) == CHOOSE i \in 1..Len(CharOrder) : CharOrder[i] = c

RECURSIVE StrLess(_, _)
StrLess(a, b) ==
    IF b = <<>> THEN FALSE
    ELSE IF a = <<>> THEN TRUE
    ELSE IF Head(a) # Head(b) THEN CharRank(Head(a)) < CharRank(Head(b))
    ELSE StrLess(Tail(a), Tail(b))

\* name_col_sorter, ascending: the items ordered by display_name, items of
\* equal name in their order in the model below
RECURSIVE InsertByName(_, _)
InsertByName(sorted, item) ==
    IF sorted = <<>> THEN <<item>>
    ELSE IF StrLess(item.display_name, Head(sorted).display_name)
    THEN <<item>> \o sorted
    ELSE <<Head(sorted)>> \o InsertByName(Tail(sorted), item)

RECURSIVE SortByName(_)
SortByName(items) ==
    IF items = <<>> THEN <<>>
    ELSE InsertByName(SortByName(SubSeq(items, 1, Len(items) - 1)), items[Len(items)])

RECURSIVE Filter(_, _, _)
Filter(items, revealed, text) ==
    IF items = <<>> THEN <<>>
    ELSE (IF search_filter(Head(items), revealed, text) THEN <<Head(items)>> ELSE <<>>)
            \o Filter(Tail(items), revealed, text)

\* what the selection model iterates over: the sort model over the filter
\* model over the store
ViewOf(st, revealed, text) == SortByName(Filter(st, revealed, text))

View == ViewOf(store, searchRevealed, searchText)

\* SingleSelection::selected_item of a position in a view
ItemAt(view, sel) == IF sel = None THEN None ELSE Some(view[sel[1] + 1])

\* SingleSelection on items-changed of its model, autoselect off: the
\* selection follows the selected object to its new position, and is dropped
\* when the object is no longer among the items
FollowItem(old, new, sel) ==
    LET it == ItemAt(old, sel)
    IN  IF it = None THEN None
        ELSE IF \E k \in 1..Len(new) : new[k] = it[1]
        THEN Some((CHOOSE k \in 1..Len(new) : new[k] = it[1]) - 1)
        ELSE None

get_selected_simple_item == ItemAt(View, selected)

\* Iterator::position of the first element whose id is the given one
PositionOfId(view, id) ==
    LET hits == {k \in 1..Len(view) : view[k].id = id}
    IN  IF hits = {} THEN None
        ELSE Some((CHOOSE k \in hits : \A h \in hits : k <= h) - 1)

get_selected_app ==
    LET simple_item == get_selected_simple_item
    IN  IF simple_item = None THEN None
        ELSE IF simple_item[1].id = None THEN None
        ELSE IF simple_item[1].id[1] \in apps THEN Some(App(simple_item[1].id[1]))
        ELSE None

-----------------------------------------------------------------------------
(* ui/pages/applications.rs: signals *)

Signals == {"SIGTERM", "SIGSTOP", "SIGKILL", "SIGCONT"}

get_action_success(signal) ==
    CASE signal = "SIGTERM" -> "Successfully ended"
      [] signal = "SIGSTOP" -> "Successfully halted"
      [] signal = "SIGKILL" -> "Successfully killed"
      [] signal = "SIGCONT" -> "Successfully continued"

get_action_failure(signal) ==
    CASE signal = "SIGTERM" -> "There was a problem ending a process"
      [] signal = "SIGSTOP" -> "There was a problem halting a process"
      [] signal = "SIGKILL" -> "There was a problem killing a process"
      [] signal = "SIGCONT" -> "There was a problem continuing a process"

get_action_failure_multiple(signal) ==
    CASE signal = "SIGTERM" -> "There were problems ending"
      [] signal = "SIGSTOP" -> "There were problems halting"
      [] signal = "SIGKILL" -> "There were problems killing"
      [] signal = "SIGCONT" -> "There were problems continuing"

\* what app.signal(signal) can return: one Result for each process tried
SignalResults == UNION {[1..n -> {"Ok", "Err"}] : n \in 0..MaxProcs}

\* res.iter().flatten(): the Ok results
RECURSIVE Flatten(_)
Flatten(res) ==
    IF res = <<>> THEN <<>>
    ELSE (IF Head(res) = "Ok" THEN <<Head(res)>> ELSE <<>>) \o Flatten(Tail(res))

\* toast_message with every result counted as a failure
toast_message_all_tried(app, signal, res) ==
    LET processes_unsuccessful == Len(res)
    IN  CASE processes_unsuccessful = 0 -> <<get_action_success(signal), app.display_name>>
          [] processes_unsuccessful = 1 -> <<get_action_failure(signal)>>
          [] OTHER -> <<get_action_failure_multiple(signal),
                        ToDecimal(processes_unsuccessful), "processes">>

\* the message execute_process_action builds from the results: the template
\* "{} {}" or "{} {} processes" is kept as the sequence of its parts
toast_message(app, signal, res) ==
    LET processes_tried == Len(res)
        processes_successful == Len(Flatten(res))
        processes_unsuccessful == processes_tried - processes_successful
    IN  CASE processes_unsuccessful = 0 -> <<get_action_success(signal), app.display_name>>
          [] processes_unsuccessful = 1 -> <<get_action_failure(signal)>>
          [] OTHER -> <<get_action_failure_multiple(signal),
                        ToDecimal(processes_unsuccessful), "processes">>

\* execute_process_action(app, signal): one call of app.signal, one toast
execute_process_action(app, signal) ==
    \E res \in SignalResults :
        /\ sent' = <<[app |-> app, signal |-> signal, res |-> res]>>
        /\ toasts' = <<toast_message(app, signal, res)>>

NoDispatch == sent' = <<>> /\ toasts' = <<>>

\* execute_process_action_dialog with the signal sent on any answer
dialog_response_any(app, signal, response) ==
    execute_process_action(app, signal)

\* the closure connected to the dialog's response signal
dialog_response(app, signal, response) ==
    IF response = "yes" THEN execute_process_action(app, signal) ELSE NoDispatch

\* execute_process_action_dialog(app, signal): SIGCONT is sent at once, any
\* other signal waits in a modal dialog for the answer
execute_process_action_dialog(app, signal) ==
    IF signal = "SIGCONT"
    THEN execute_process_action(app, signal) /\ UNCHANGED dialog
    ELSE dialog' = Some([app |-> app, signal |-> signal]) /\ NoDispatch

-----------------------------------------------------------------------------
(* ui/pages/applications.rs: the handlers *)

\* store.append of each of the items to a store that the filter model already
\* holds: the model is told of every append and sees the store grow
appended(items) == [k \in 1..Len(items) |-> SubSeq(items, 1, k)]

\* filter_model.set_model of a store filled beforehand: the model is told once
set_model(st) == <<st>>

\* init(): setup_widgets builds the models over a new store, loads Apps::new()
\* (unwrap: a failure panics) and appends its items; setup_listener starts
\* the loop
setup_widgets ==
    /\ UNCHANGED <<cpuVars, statVars, fileVars>>
    /\ pc = "new"
    /\ \E r \in {Err("Apps::new")} \cup {Ok(ids) : ids \in SUBSET AppIds} :
          IF r.kind = "Ok"
          THEN /\ pc' = "running"
               /\ apps' = r.val
               /\ store' = Simple(r.val)
               /\ listener' = "timeout"
               /\ observed' = appended(Simple(r.val))
          ELSE /\ pc' = "crashed"
               /\ observed' = <<>>
               /\ UNCHANGED <<apps, store, listener>>
    /\ event' = [NoEvent EXCEPT !.kind = "init"]
    /\ NoDispatch
    /\ UNCHANGED <<searchRevealed, searchText, selected, refreshing, cycles, captured,
                   endSensitive, dialog>>

\* input reaches the page only while no modal dialog is open
Interactive == pc = "running" /\ dialog = None

\* the handler of selection-changed: the sensitivity it gives the
\* end-application button
selection_changed(view, sel) ==
    LET is_system_processes == sel # None /\ ItemAt(view, sel)[1].id = None
    IN  sel # None /\ ~is_system_processes

\* the user selects row i of the column view
Select(i) ==
    /\ UNCHANGED <<cpuVars, statVars, fileVars>>
    /\ Interactive
    /\ i \in 0..(Len(View) - 1)
    /\ selected # Some(i)
    /\ selected' = Some(i)
    /\ endSensitive' = selection_changed(View, selected')
    /\ event' = [NoEvent EXCEPT !.kind = "input"]
    /\ NoDispatch
    /\ UNCHANGED <<pc, apps, store, searchRevealed, searchText, refreshing, captured, dialog>>
    /\ UNCHANGED loopVars
    /\ observed' = <<>>

\* the user unselects the selected row (can_unselect)
Unselect ==
    /\ UNCHANGED <<cpuVars, statVars, fileVars>>
    /\ Interactive
    /\ selected # None
    /\ selected' = None
    /\ endSensitive' = selection_changed(View, selected')
    /\ event' = [NoEvent EXCEPT !.kind = "input"]
    /\ NoDispatch
    /\ UNCHANGED <<pc, apps, store, searchRevealed, searchText, refreshing, captured, dialog>>
    /\ UNCHANGED loopVars
    /\ observed' = <<>>

\* search_button toggled: the revealer follows the button, the filter is
\* evaluated again
SearchToggled ==
    /\ UNCHANGED <<cpuVars, statVars, fileVars>>
    /\ Interactive
    /\ searchRevealed' = ~searchRevealed
    /\ selected' = FollowItem(View, ViewOf(store, searchRevealed', searchText), selected)
    /\ event' = [NoEvent EXCEPT !.kind = "input"]
    /\ NoDispatch
    /\ UNCHANGED <<pc, apps, store, searchText, refreshing, captured, dialog>>
    /\ UNCHANGED loopVars
    /\ observed' = <<>>
    /\ UNCHANGED endSensitive

\* search_entry search-changed: the filter is evaluated again
SearchChanged(text) ==
    /\ UNCHANGED <<cpuVars, statVars, fileVars>>
    /\ Interactive
    /\ searchRevealed
    /\ text # searchText
    /\ searchText' = text
    /\ selected' = FollowItem(View, ViewOf(store, searchRevealed, text), selected)
    /\ event' = [NoEvent EXCEPT !.kind = "input"]
    /\ NoDispatch
    /\ UNCHANGED <<pc, apps, store, searchRevealed, refreshing, captured, dialog>>
    /\ UNCHANGED loopVars
    /\ observed' = <<>>
    /\ UNCHANGED endSensitive

\* the loop of setup_listener with refresh_apps_list left to run on its own:
\* the loop goes back to the timeout at once
setup_listener_loop_detached(at) == "timeout"

\* the loop of setup_listener: it awaits the timeout, then refresh_apps_list,
\* then the timeout again
setup_listener_loop(at) == IF at = "timeout" THEN "refresh" ELSE "timeout"

\* refresh_apps_list up to apps.refresh().await: the timeout of the loop has
\* elapsed, imp.apps is borrowed mutably (a panic if a call that has not
\* returned holds it), the selection is remembered, refresh() is started
RefreshBegin ==
    /\ UNCHANGED <<cpuVars, statVars, fileVars>>
    /\ pc = "running"
    /\ listener = "timeout"
    /\ listener' = setup_listener_loop(listener)
    /\ cycles' = cycles + 1
    /\ IF refreshing
       THEN /\ pc' = "crashed"
            /\ UNCHANGED <<refreshing, captured>>
       ELSE /\ pc' = pc
            /\ refreshing' = TRUE
            /\ captured' = (IF get_selected_simple_item = None THEN None
                            ELSE Some(get_selected_simple_item[1].id))
    /\ event' = [NoEvent EXCEPT !.kind = "begin"]
    /\ observed' = <<>>
    /\ NoDispatch
    /\ UNCHANGED <<apps, store, searchRevealed, searchText, selected, endSensitive, dialog>>

\* the store refresh_apps_list publishes with every outcome of refresh()
\* filling it
new_store_always_filled(r) == Simple(r.val)

\* the store refresh_apps_list publishes: filled only when refresh() is Ok
new_store(r) == IF r.kind = "Ok" THEN Simple(r.val) ELSE <<>>

\* the selection after the new store is set: no position is looked up
reselect_none(view, selected_item) == None

\* the selection after the new store is set: every object of the view is
\* new, so the selection model has dropped its selection; the remembered id
\* is looked up and its position selected
reselect(view, selected_item) ==
    IF selected_item = None THEN None
    ELSE PositionOfId(view, selected_item[1])

\* refresh_apps_list from the completion of apps.refresh() to its end
RefreshEnd ==
    /\ UNCHANGED <<cpuVars, statVars, fileVars>>
    /\ pc = "running"
    /\ refreshing
    /\ \E r \in {[kind |-> "Err", val |-> apps]} \cup {Ok(ids) : ids \in SUBSET AppIds} :
          /\ apps' = r.val
          /\ store' = new_store(r)
          /\ observed' = set_model(store')
          /\ selected' = reselect(ViewOf(store', searchRevealed, searchText), captured)
          /\ endSensitive' =
                (IF selected' # None
                 THEN selection_changed(ViewOf(store', searchRevealed, searchText), selected')
                 ELSE endSensitive)
          /\ event' = [NoEvent EXCEPT !.kind = "cycle", !.outcome = r.kind,
                                      !.captured = captured]
    /\ refreshing' = FALSE
    /\ listener' = setup_listener_loop("refresh")
    /\ cycles' = cycles - 1
    /\ captured' = None
    /\ NoDispatch
    /\ UNCHANGED <<pc, searchRevealed, searchText, dialog>>

\* the end-application button (SIGTERM) or one of the actions kill, halt,
\* continue: execute_process_action_dialog_selected_app(signal).
\* get_selected_app borrows imp.apps, which refresh_apps_list holds mutably
\* borrowed while it is suspended: the borrow panics.
RequestSignal(signal) ==
    /\ UNCHANGED <<cpuVars, statVars, fileVars>>
    /\ Interactive
    /\ signal = "SIGTERM" => endSensitive
    /\ IF refreshing
       THEN /\ pc' = "crashed"
            /\ event' = [NoEvent EXCEPT !.kind = "request", !.signal = signal]
            /\ NoDispatch
            /\ UNCHANGED dialog
       ELSE /\ pc' = pc
            /\ IF get_selected_app = None
               THEN /\ event' = [NoEvent EXCEPT !.kind = "request", !.signal = signal]
                    /\ NoDispatch
                    /\ UNCHANGED dialog
               ELSE /\ event' = [NoEvent EXCEPT !.kind = "dialog_call", !.signal = signal,
                                                !.app = get_selected_app]
                    /\ execute_process_action_dialog(get_selected_app[1], signal)
    /\ UNCHANGED <<apps, store, searchRevealed, searchText, selected, refreshing, captured>>
    /\ UNCHANGED loopVars
    /\ observed' = <<>>
    /\ UNCHANGED endSensitive

\* the user answers the confirmation dialog, which closes
Respond(response) ==
    /\ UNCHANGED <<cpuVars, statVars, fileVars>>
    /\ pc = "running"
    /\ dialog # None
    /\ dialog_response(dialog[1].app, dialog[1].signal, response)
    /\ dialog' = None
    /\ event' = [NoEvent EXCEPT !.kind = "response", !.signal = dialog[1].signal,
                                !.answer = response, !.app = Some(dialog[1].app)]
    /\ UNCHANGED <<pc, apps, store, searchRevealed, searchText, selected, refreshing,
                   captured>>
    /\ UNCHANGED loopVars
    /\ observed' = <<>>
    /\ UNCHANGED endSensitive

Init == UiNew /\ CpuIdle /\ StatIdle /\ FileIdle

Next ==
    \/ setup_widgets
    \/ \E i \in 0..Cardinality(AppIds) : Select(i)
    \/ Unselect
    \/ SearchToggled
    \/ \E text \in SearchTexts : SearchChanged(text)
    \/ RefreshBegin
    \/ RefreshEnd
    \/ \E signal \in Signals : RequestSignal(signal)
    \/ \E response \in {"yes", "no"} : Respond(response)

Spec == Init /\ [][Next]_vars

-----------------------------------------------------------------------------
(* Properties of the applications page *)

Failed(res) == Cardinality({i \in 1..Len(res) : res[i] = "Err"})

\* C1: every call of app.signal is reported by exactly one notice, chosen by
\* the number of failed results alone: none failed, the success message with
\* the application's name; one failed, the single-failure message and nothing
\* else; two or more failed, the multi-failure message with that number.
C1_ToastTiers ==
    /\ Len(toasts) = Len(sent)
    /\ \A k \in 1..Len(sent) :
          LET d == sent[k]
              n == Failed(d.res)
          IN  /\ n = 0 => toasts[k] = <<get_action_success(d.signal), d.app.display_name>>
              /\ n = 1 => toasts[k] = <<get_action_failure(d.signal)>>
              /\ n >= 2 => toasts[k] = <<get_action_failure_multiple(d.signal),
                                         ToDecimal(n), "processes">>

\* three processes were signalled and exactly two failed
C1_Witness ==
    /\ Len(sent) = 1
    /\ Len(sent[1].res) = 3
    /\ Failed(sent[1].res) = 2
    /\ toasts = <<<<"There were problems killing", <<"2">>, "processes">>>>

\* C2, as stated: after a cycle of refresh_apps_list the item with the
\* remembered identifier is selected if the new store holds such an item, and
\* nothing is selected otherwise.
C2_ReselectedIfInStore ==
    event.kind = "cycle"
        => IF /\ event.captured # None
              /\ \E k \in 1..Len(store) : store[k].id = event.captured[1]
           THEN /\ get_selected_simple_item # None
                /\ get_selected_simple_item[1].id = event.captured[1]
           ELSE selected = None

\* C2, amended: after a cycle of refresh_apps_list the item with the
\* remembered identifier is selected if the new store holds such an item and
\* the search filter in effect at the end of the cycle shows it, and nothing
\* is selected otherwise.
C2_ReselectedIfShown ==
    event.kind = "cycle"
        => IF /\ event.captured # None
              /\ \E k \in 1..Len(View) : View[k].id = event.captured[1]
           THEN /\ get_selected_simple_item # None
                /\ get_selected_simple_item[1].id = event.captured[1]
           ELSE selected = None

\* application b was selected before a refresh that dropped application a,
\* and is selected after it, at position 0
C2_Witness ==
    /\ event.kind = "cycle"
    /\ event.outcome = "Ok"
    /\ event.captured = Some(Some("b"))
    /\ apps = {"b"}
    /\ selected = Some(0)
    /\ get_selected_simple_item[1].id = Some("b")

\* C3: a cycle in which refresh() returns an error leaves the store that was
\* shown before the cycle in place.
C3_StaleStoreOnError ==
    [][(event'.kind = "cycle" /\ event'.outcome = "Err") => store' = store]_vars

\* C10: SIGCONT is sent by the call of execute_process_action_dialog itself
\* and opens no dialog; any other signal opens a dialog and is sent only by
\* the answer "yes" to it, once, and not by any other answer.
C10_ConfirmationOrdering ==
    /\ dialog # None => dialog[1].signal # "SIGCONT"
    /\ (event.kind = "dialog_call" /\ event.signal = "SIGCONT")
          => /\ Len(sent) = 1
             /\ sent[1].app = event.app[1]
             /\ sent[1].signal = "SIGCONT"
             /\ dialog = None
    /\ (event.kind = "dialog_call" /\ event.signal # "SIGCONT")
          => /\ sent = <<>>
             /\ dialog = Some([app |-> event.app[1], signal |-> event.signal])
    /\ (event.kind = "response" /\ event.answer = "yes")
          => /\ Len(sent) = 1
             /\ sent[1].app = event.app[1]
             /\ sent[1].signal = event.signal
             /\ dialog = None
    /\ (event.kind = "response" /\ event.answer # "yes") => sent = <<>>
    /\ sent # <<>>
          => \/ event.kind = "dialog_call" /\ event.signal = "SIGCONT"
             \/ event.kind = "response" /\ event.answer = "yes"

\* the dialog for SIGKILL was answered "yes" and the signal sent
C10_Witness ==
    /\ event.kind = "response"
    /\ event.answer = "yes"
    /\ event.signal = "SIGKILL"
    /\ Len(sent) = 1
    /\ sent[1].signal = "SIGKILL"

\* C11: a call of execute_process_action_dialog_selected_app handled while
\* refresh_apps_list is suspended in apps.refresh().await ends without a
\* panic and acts on the application that get_selected_app finds in the Apps
\* of the last completed refresh.
C11_DispatchDuringRefresh ==
    [][(refreshing /\ event'.kind \in {"request", "dialog_call"})
          => /\ pc' = "running"
             /\ get_selected_app = None => event'.kind = "request"
             /\ get_selected_app # None
                   => event'.kind = "dialog_call" /\ event'.app = get_selected_app]_vars

\* C12: at most one call of refresh_apps_list is in progress, and the loop
\* of setup_listener waits for the next cycle only when none is.
C12_CyclesNeverOverlap ==
    /\ cycles <= 1
    /\ listener = "timeout" => cycles = 0
    /\ refreshing => cycles = 1

\* a cycle has returned and published its store, and the loop awaits the
\* timeout again
C12_Witness ==
    /\ event.kind = "cycle"
    /\ event.outcome = "Ok"
    /\ cycles = 0
    /\ listener = "timeout"
    /\ ~refreshing
    /\ store = Simple({"a", "b"})

\* C13: the presentation models never see a store change after it was
\* handed to them: whatever they are told of in the initial load or in a
\* cycle of refresh_apps_list is the complete store of that load or cycle.
C13_NoPartialCollection ==
    \A k \in 1..Len(observed) : observed[k] = store

\* C14: the page is running after the initial load and after every cycle of
\* refresh_apps_list, whether Apps::new or apps.refresh failed or not, and
\* after a cycle the loop of setup_listener awaits the next timeout.
C14_FailureNotFatal ==
    /\ event.kind \in {"init", "cycle"} => pc = "running"
    /\ event.kind = "cycle" => listener = "timeout"

\* C16: execute_process_action_dialog_selected_app opens a dialog or sends a
\* signal only for the application of the selected item, which is a key of
\* Apps, and does neither when get_selected_app finds none; and the
\* end-application button is insensitive exactly when nothing is selected or
\* the selected item is the one of the system processes.
C16_NoDispatchWithoutApp ==
    /\ event.kind = "dialog_call"
          => /\ get_selected_simple_item # None
             /\ get_selected_simple_item[1].id # None
             /\ get_selected_simple_item[1].id[1] \in apps
             /\ event.app = Some(App(get_selected_simple_item[1].id[1]))
    /\ event.kind = "request" => sent = <<>> /\ dialog = None
    /\ (event.kind \in {"request", "dialog_call"} /\ pc = "running" /\ get_selected_app = None)
          => event.kind = "request"
    /\ pc = "running"
          => (endSensitive <=> (/\ get_selected_simple_item # None
                                /\ get_selected_simple_item[1].id # None))

-----------------------------------------------------------------------------
(* Properties of get_sector_size *)

\* C15: get_sector_size returns Ok(n) when the file holds the number n, with
\* or without the newline that ends the line, and Err when the file cannot
\* be read or does not hold an unsigned number; get_cpu_freq accepts the same
\* two forms and returns the number times 1000.
C15_SectorSizeOfOneLineFile ==
    /\ sectorRes # NotCalled
          => IF sysfsShape \in {"line", "bare"}
             THEN sectorRes = Ok(sysfsValue)
             ELSE sectorRes.kind = "Err"
    /\ freqRes # NotCalled
          => IF sysfsShape \in {"line", "bare"}
             THEN freqRes = Ok(sysfsValue * 1000)
             ELSE freqRes.kind = "Err"

-----------------------------------------------------------------------------
(* Properties of get_cpu_usage *)

Called(r) == r.kind # "NoCall"

\* C4: parse_proc_stat_line returns Err for every selected line in which one
\* of the ten fields is missing or is not a number; it returns Ok only when
\* all ten are present and numeric.
C4_MalformedLineIsErr ==
    (Called(cpuRes) /\ cpuRes.line < cpuLines /\ ~WellFormed(cpuShape))
        => cpuRes.kind = "Err"

\* C5: get_cpu_usage never panics, and a request for a line that /proc/stat
\* does not hold (selected line number >= number of cpu lines) returns Err.
C5_MissingLineIsErr ==
    /\ cpuRes.kind # "Panic"
    /\ (Called(cpuRes) /\ cpuRes.line >= cpuLines) => cpuRes.kind = "Err"

\* C6: for a well-formed line the result is Ok((idle + iowait, sum of the ten
\* fields)), computed from the counters the kernel printed on that line.
C6_WellFormedLineTotals ==
    (Called(cpuRes) /\ cpuRes.line < cpuLines /\ WellFormed(cpuShape))
        => /\ cpuRes.kind = "Ok"
           /\ cpuRes.val = <<cpuRes.fields[4] + cpuRes.fields[5], SumSeq(cpuRes.fields)>>

\* a core line (its name carries a digit) with counters of several digits
\* has been parsed
C6_Witness ==
    /\ cpuRes.kind = "Ok"
    /\ cpuRes.line = 1
    /\ cpuRes.fields[10] >= 100
    /\ \E i \in 1..NumCpuFields : cpuTicks[i] > 0

\* the ten fields of sample b are each >= the same field of sample a
Monotone(a, b) ==
    /\ Len(a.fields) = NumCpuFields
    /\ Len(b.fields) = NumCpuFields
    /\ \A i \in 1..NumCpuFields : b.fields[i] >= a.fields[i]

\* C7: every accepted sample has idle_time <= total_time, and for accepted
\* samples (previous, current) with monotone fields and a larger total,
\* 0 <= delta idle_time <= delta total_time.
C7_DeltaIdleWithinDeltaTotal ==
    /\ cpuRes.kind = "Ok" => cpuRes.val[1] <= cpuRes.val[2]
    /\ (/\ cpuPrev.kind = "Ok"
        /\ cpuRes.kind = "Ok"
        /\ Monotone(cpuPrev, cpuRes)
        /\ cpuRes.val[2] > cpuPrev.val[2])
        => /\ 0 <= cpuRes.val[1] - cpuPrev.val[1]
           /\ cpuRes.val[1] - cpuPrev.val[1] <= cpuRes.val[2] - cpuPrev.val[2]

\* two samples of the same line, between which an idle counter and a busy
\* counter advanced
C7_Witness ==
    /\ cpuPrev.kind = "Ok"
    /\ cpuRes.kind = "Ok"
    /\ cpuPrev.line = cpuRes.line
    /\ Monotone(cpuPrev, cpuRes)
    /\ cpuRes.val[1] - cpuPrev.val[1] = 1
    /\ cpuRes.val[2] - cpuPrev.val[2] = 2

-----------------------------------------------------------------------------
(* Properties of sys_stat *)

\* C8: for a well-formed stat line sys_stat returns a map with exactly the 17
\* keys of SYS_STAT_FIELDS, the i-th key holding the i-th integer of the line.
C8_StatRoundTrip ==
    (Called(statRes) /\ WellFormed(statShape))
        => /\ statRes.kind = "Ok"
           /\ DOMAIN statRes.val = {SYS_STAT_FIELDS[i] : i \in 1..NumStatFields}
           /\ Cardinality(DOMAIN statRes.val) = 17
           /\ \A i \in 1..NumStatFields : statRes.val[SYS_STAT_FIELDS[i]] = StatVals[i]

\* a line of 17 distinct counters of several digits, padded with blanks, has
\* been read
C8_Witness ==
    /\ statRes.kind = "Ok"
    /\ WellFormed(statShape)
    /\ statPad > 1
    /\ statRes.val["read_ios"] = 1007
    /\ statRes.val["flush_ticks"] = 17007

\* C9: sys_stat returns Err whenever one of the first 17 tokens is missing or
\* is not a number, and a map it returns holds all 17 keys.
C9_NoPartialSnapshot ==
    /\ (Called(statRes) /\ ~WellFormed(statShape)) => statRes.kind = "Err"
    /\ statRes.kind = "Ok"
          => DOMAIN statRes.val = {SYS_STAT_FIELDS[i] : i \in 1..NumStatFields}

====
